---- MODULE Spec2Model ----
(***************************************************************************)
(* Conversation/session engine of the AI assistant editor plugin.          *)
(*                                                                         *)
(* The repository holds three generations of the chat conversation store:  *)
(*   "chatView"   src/src/chatView.ts       (flag, diagrams, plots)        *)
(*   "part_002"   src/unnamed/part_002      (flag, client built per send)  *)
(*   "extension"  src/src/extension.ts:38   (no flag, slice(-10) trimming) *)
(* and the review panel of the code generation view.  Texts are sequences  *)
(* of tokens: "x" a plain word, "d" the word 'diagram', "g" the keyword    *)
(* 'graph', "N" a newline, "F" a triple-backtick fence, "M" the tag        *)
(* 'mermaid', "y" and "z" further plain words, "<" the character '<' and   *)
(* "&lt;" its HTML entity, "s" the text of the system message and "p" the  *)
(* instruction appended to a diagram request.                              *)
(***************************************************************************)
EXTENDS Integers, Sequences, FiniteSets, TLC

VARIABLES
    impl,         \* which ChatViewProvider class is registered
    apiKey,       \* configured credential of the selected provider ("" = none)
    client,       \* the provider constructed its client (_client / llmClient)
    persisted,    \* globalState value under the history key
    messages,     \* _messages / the closure variable `messages`
    isProcessing, \* _isProcessing
    calls,        \* provider calls in flight, in the order they were issued
    docWrites,    \* edits handed to the document-mutation boundary, in order
    sent,         \* number of send commands that went past the entry check
    plotted,      \* number of plot commands handled
    log,          \* every message appended since the last clear (observation)
    ev,           \* what the last handler step did (observation)
    notes,        \* notifications shown by the last handler step
    panels,       \* review panels created so far
    editor,       \* an active text editor exists
    generated,    \* number of generate commands handled
    provider,     \* configured provider name (selectedProvider)
    doc,          \* the active editor's document, split around its selection
    diffRun,      \* one call of generateDiffHtml: its arguments and output
    clientRun,    \* one use of a client factory and of the client it returned
    fenceRun,     \* one call of showMermaidDiagram: its argument and payload
    assistant     \* the AIAssistant object: its flag and its commands in flight

vars == <<impl, apiKey, client, persisted, messages, isProcessing, calls,
          docWrites, sent, plotted, log, ev, notes, panels, editor, generated,
          provider, doc, diffRun, clientRun, fenceRun, assistant>>

(* The variables of the stand-alone runs other than the diff. *)
otherRuns == <<clientRun, fenceRun, assistant>>

chatVars == <<impl, apiKey, client, persisted, messages, isProcessing, calls,
              sent, plotted, log, provider>>

reviewVars == <<panels, editor, generated, doc>>

----------------------------------------------------------------------------
(* Bounds *)

MaxCommands == 2
MaxGens == 2
MaxClicks == 2
MaxReviewCommands == 3
MaxTextLen == 3
MaxMsgs == 2
MaxFenceLen == 4
MaxAssistantCommands == 3

(* extension.ts: `if (messages.length > 10) messages = messages.slice(-10)` *)
Cap == 10

----------------------------------------------------------------------------
(* Values *)

Impls == {"chatView", "part_002", "extension"}
Flagged == {"chatView", "part_002"}

Contents == { <<"x">>, <<"d">> }
Replies == { <<"x">>, <<"g">>, <<"F", "M", "N", "g", "N", "F">> }
PlotData == { <<"x">> }
Codes == { <<"x">> }
GeneratedCodes == { <<"x">>, <<"y">> }
Providers == { "OpenAI", "Ollama" }

(* The active document: the text before the selection, the selected text   *)
(* (<<>> when editor.selection.isEmpty) and the text after it.             *)
Document(pre, sel, post) == [pre |-> pre, sel |-> sel, post |-> post]
EmptyDoc == Document(<<>>, <<>>, <<>>)
Docs == { EmptyDoc, Document(<<"y">>, <<>>, <<>>),
          Document(<<"y", "N">>, <<"z">>, <<>>) }

(* editor.document.getText() *)
GetText(d) == d.pre \o d.sel \o d.post

(* No factory used, no diagram shown, no assistant command run yet. *)
NoClientRun ==
    [factory |-> "none", name |-> "", key |-> "", class |-> "none",
     msgs |-> <<>>, stage |-> "idle", error |-> "none", notes |-> <<>>,
     requests |-> <<>>]
NoFenceRun == [text |-> <<>>, done |-> FALSE, payload |-> <<>>]
IdleAssistant ==
    [isProcessing |-> FALSE, inFlight |-> 0, issued |-> 0, cmd |-> "none"]

(* No call of generateDiffHtml made yet. *)
NoDiff == [old |-> <<>>, new |-> <<>>, done |-> FALSE, out |-> <<>>]

Msg(role, content) == [role |-> role, content |-> content]

Arr(items) == [kind |-> "array", items |-> items]
Junk(kind) == [kind |-> kind, items |-> <<>>]

(* A history of n messages left by an earlier session. *)
Hist(n) == [i \in 1..n |-> Msg(IF i % 2 = 1 THEN "user" ELSE "assistant", <<"x">>)]

StoredValues ==
    { Junk("absent"), Junk("null"), Junk("object"), Junk("string"),
      Arr(<<>>), Arr(Hist(Cap - 1)), Arr(Hist(Cap)) }

NoCall == [op |-> "none", content |-> <<>>, h0 |-> <<>>, p0 |-> Junk("absent"),
           clean |-> FALSE, arg |-> <<>>, hung |-> FALSE, cleared |-> FALSE]

Event(kind, call) == [kind |-> kind, call |-> call]

----------------------------------------------------------------------------
(* Pure helpers *)

RECURSIVE TrimLeft(_)
TrimLeft(s) == IF s # <<>> /\ Head(s) = "N" THEN TrimLeft(Tail(s)) ELSE s

RECURSIVE TrimRight(_)
TrimRight(s) ==
    IF s # <<>> /\ s[Len(s)] = "N" THEN TrimRight(SubSeq(s, 1, Len(s) - 1)) ELSE s

Trim(s) == TrimRight(TrimLeft(s))

Includes(s, tok) == \E i \in 1..Len(s) : s[i] = tok

HasMermaidFence(s) == \E i \in 1..(Len(s) - 1) : s[i] = "F" /\ s[i + 1] = "M"

isMermaidDiagram(content) ==
    Includes(Trim(content), "g") \/ HasMermaidFence(Trim(content))

(* /```mermaid\s*([\s\S]*?)\s*```/ : the text after the first ```mermaid up *)
(* to the next fence, without the white space around it; no match when no  *)
(* fence follows.                                                          *)
MermaidCapture(s) ==
    LET opens == { i \in 1..(Len(s) - 1) :
                       s[i] = "F" /\ s[i + 1] = "M" /\
                       \E j \in (i + 2)..Len(s) : s[j] = "F" }
    IN  IF opens = {} THEN <<>>
        ELSE LET i == CHOOSE a \in opens : \A b \in opens : a <= b
                 j == CHOOSE a \in (i + 2)..Len(s) :
                          s[a] = "F" /\ \A b \in (i + 2)..(a - 1) : s[b] # "F"
             IN  Trim(SubSeq(s, i + 2, j - 1))

(* The content showMermaidDiagram stores for a response. *)
MermaidContent(diagramContent) ==
    LET formatted == Trim(diagramContent)
        m == MermaidCapture(formatted)
    IN  IF m # <<>> THEN m ELSE formatted

(* TrimHistory keeping the oldest messages: slice(0, 10) *)
TrimHistory_KeepsOldest(items) ==
    IF Len(items) > Cap THEN SubSeq(items, 1, Cap) ELSE items

(* messages.slice(-10) when longer than 10 *)
TrimHistory(items) ==
    IF Len(items) > Cap THEN SubSeq(items, Len(items) - Cap + 1, Len(items))
    ELSE items

(* chatView.ts / part_002: globalState.get('chatHistory', []) || [] *)
RestoreChatView(p) == IF p.kind \in {"absent", "null"} THEN Arr(<<>>) ELSE p

(* extension.ts: get('chatContext', []) then `if (!Array.isArray(messages))` *)
RestoreExtension(p) == IF p.kind = "array" THEN p ELSE Arr(<<>>)

Restore(i, p) == IF i = "extension" THEN RestoreExtension(p) ELSE RestoreChatView(p)

(* Every other pending call has seen another command handled. *)
Touch(cs) == [i \in DOMAIN cs |-> [cs[i] EXCEPT !.clean = FALSE]]

(* Every pending call has seen the conversation cleared. *)
Cleared(cs) ==
    [i \in DOMAIN cs |-> [cs[i] EXCEPT !.clean = FALSE, !.cleared = TRUE]]

Remove(cs, i) == SubSeq(cs, 1, i - 1) \o SubSeq(cs, i + 1, Len(cs))

(* getSystemMessage() / the systemPrompt of extension.ts *)
SystemMessage == Msg("system", <<"s">>)

(* The argument of the provider call: a diagram request carries the system *)
(* message and the user's text with a fixed instruction ("p") appended;    *)
(* a chat request the system message and the history with the user message *)
(* just pushed; a plot or generate request the text alone.                 *)
CallArg(op, content) ==
    IF op = "diagram"
    THEN << SystemMessage, Msg("user", content \o <<"N", "N", "p">>) >>
    ELSE IF op = "chat"
    THEN << SystemMessage >> \o messages.items \o << Msg("user", content) >>
    ELSE << Msg("user", content) >>

NewCall(op, content) ==
    [op |-> op, content |-> content, h0 |-> messages.items, p0 |-> persisted,
     clean |-> TRUE, arg |-> CallArg(op, content), hung |-> FALSE,
     cleared |-> FALSE]

----------------------------------------------------------------------------
(* Chat conversation store *)

(* chatView.ts builds its client in the constructor, where getLLMClient     *)
(* throws on a missing key: the provider is then never registered.         *)
Alive == impl = "chatView" => client

Push(m) == Arr(Append(messages.items, m))

(* Commands (send, plot, insert) still to be issued in a run. *)
Budget == sent + plotted + Len(docWrites) < MaxCommands

InitChat ==
    /\ impl \in Impls
    /\ apiKey \in {"", "k"}
    /\ client = (impl # "part_002" /\ apiKey # "")
    /\ persisted \in StoredValues
    /\ messages = Restore(impl, persisted)
    /\ isProcessing = FALSE
    /\ calls = <<>>
    /\ docWrites = <<>>
    /\ sent = 0
    /\ plotted = 0
    /\ log = messages.items
    /\ ev = Event("init", NoCall)
    /\ notes = <<>>
    /\ panels = <<>>
    /\ editor = TRUE
    /\ generated = 0
    /\ provider \in Providers
    /\ doc = EmptyDoc
    /\ diffRun = NoDiff
    /\ clientRun = NoClientRun
    /\ fenceRun = NoFenceRun
    /\ assistant = IdleAssistant

(* SendRejected with the entry check inside the try: the finally clears    *)
(* the flag of the send in flight.                                         *)
SendRejected_ClearsFlag(content) ==
    /\ impl \in Flagged /\ Alive
    /\ isProcessing
    /\ isProcessing' = FALSE
    /\ calls' = Touch(calls)
    /\ ev' = Event("sendRejected", NoCall)
    /\ notes' = <<"warning">>
    /\ UNCHANGED <<diffRun, otherRuns, provider, doc, impl, apiKey, client, persisted, messages,
                   docWrites, sent, plotted, log, panels, editor, generated>>

(* sendMessage, entry check: a send while one is pending only warns. *)
SendRejected(content) ==
    /\ impl \in Flagged /\ Alive
    /\ isProcessing
    /\ calls' = Touch(calls)
    /\ ev' = Event("sendRejected", NoCall)
    /\ notes' = <<"warning">>
    /\ UNCHANGED <<diffRun, otherRuns, provider, doc, impl, apiKey, client, persisted, messages, isProcessing,
                   docWrites, sent, plotted, log, panels, editor, generated>>

(* sendMessage when _messages is not an array: push throws inside the try, *)
(* the catch reports it and the finally clears the flag.                   *)
SendThrows(content) ==
    /\ impl \in Flagged /\ Alive
    /\ ~isProcessing
    /\ messages.kind # "array"
    /\ isProcessing' = FALSE
    /\ calls' = Touch(calls)
    /\ ev' = Event("sendThrew", NoCall)
    /\ notes' = <<"error">>
    /\ UNCHANGED <<diffRun, otherRuns, provider, doc, impl, apiKey, client, persisted, messages,
                   docWrites, sent, plotted, log, panels, editor, generated>>

(* part_002 sendMessage with no credential: the user message is pushed,    *)
(* getLLMClient notifies and throws, the catch notifies, finally runs.     *)
SendNoClient(content) ==
    /\ impl = "part_002"
    /\ ~isProcessing
    /\ messages.kind = "array"
    /\ apiKey = ""
    /\ Budget
    /\ messages' = Push(Msg("user", content))
    /\ log' = Append(log, Msg("user", content))
    /\ isProcessing' = FALSE
    /\ calls' = Touch(calls)
    /\ sent' = sent + 1
    /\ ev' = Event("sendFailed", NewCall("chat", content))
    /\ notes' = <<"error", "error">>
    /\ UNCHANGED <<diffRun, otherRuns, provider, doc, impl, apiKey, client, persisted, docWrites, plotted,
                   panels, editor, generated>>

(* sendMessage up to its await: flag set, user message pushed, chat called *)
SendMessage(content) ==
    /\ impl \in Flagged /\ Alive
    /\ ~isProcessing
    /\ messages.kind = "array"
    /\ impl = "part_002" => apiKey # ""
    /\ Budget
    /\ isProcessing' = TRUE
    /\ messages' = Push(Msg("user", content))
    /\ log' = Append(log, Msg("user", content))
    /\ calls' = Append(Touch(calls),
                       NewCall(IF impl = "chatView" /\ Includes(content, "d")
                               THEN "diagram" ELSE "chat", content))
    /\ sent' = sent + 1
    /\ ev' = Event("sendIssued", NoCall)
    /\ notes' = <<>>
    /\ UNCHANGED <<diffRun, otherRuns, provider, doc, impl, apiKey, client, persisted, docWrites, plotted,
                   panels, editor, generated>>

(* ChatReply where the diagram path falls through to the plain push *)
ChatReply_PushesTwice(i, response) ==
    /\ impl \in Flagged
    /\ i \in DOMAIN calls
    /\ calls[i].op \in {"chat", "diagram"}
    /\ ~calls[i].hung
    /\ LET c == calls[i]
           diagram == impl = "chatView" /\
                      (c.op = "diagram" \/ isMermaidDiagram(response))
           first == IF diagram
                    THEN Append(messages.items, Msg("assistant", MermaidContent(response)))
                    ELSE messages.items
           all == Append(first, Msg("assistant", response))
       IN  /\ messages' = Arr(all)
           /\ log' = log \o SubSeq(all, Len(messages.items) + 1, Len(all))
           /\ persisted' = messages'
           /\ calls' = Touch(Remove(calls, i))
           /\ ev' = Event("sendDone", c)
    /\ isProcessing' = FALSE
    /\ notes' = <<>>
    /\ UNCHANGED <<diffRun, otherRuns, provider, doc, impl, apiKey, client, docWrites, sent, plotted,
                   panels, editor, generated>>

(* sendMessage after its await resolved with `response` *)
ChatReply(i, response) ==
    /\ impl \in Flagged
    /\ i \in DOMAIN calls
    /\ calls[i].op \in {"chat", "diagram"}
    /\ ~calls[i].hung
    /\ LET c == calls[i]
           content == IF impl = "chatView" /\
                         (c.op = "diagram" \/ isMermaidDiagram(response))
                      THEN MermaidContent(response) ELSE response
       IN  /\ messages' = Push(Msg("assistant", content))
           /\ log' = Append(log, Msg("assistant", content))
           /\ persisted' = messages'
           /\ calls' = Touch(Remove(calls, i))
           /\ ev' = Event("sendDone", c)
    /\ isProcessing' = FALSE
    /\ notes' = <<>>
    /\ UNCHANGED <<diffRun, otherRuns, provider, doc, impl, apiKey, client, docWrites, sent, plotted,
                   panels, editor, generated>>

(* Notifications the client itself shows before it rethrows: the          *)
(* OpenAIClient of clients/openAIClient.ts calls handleError in the catch  *)
(* of chat and generate; the Ollama client and the clients of the older    *)
(* extension.ts show nothing.                                              *)
ClientNotes ==
    IF impl \in Flagged /\ provider = "OpenAI" THEN <<"error">> ELSE <<>>

(* ChatFail with the globalState update placed in the finally *)
ChatFail_Persists(i) ==
    /\ impl \in Flagged
    /\ i \in DOMAIN calls
    /\ calls[i].op \in {"chat", "diagram"}
    /\ ~calls[i].hung
    /\ isProcessing' = FALSE
    /\ persisted' = messages
    /\ calls' = Touch(Remove(calls, i))
    /\ ev' = Event("sendFailed", calls[i])
    /\ notes' = ClientNotes \o <<"error">>
    /\ UNCHANGED <<diffRun, otherRuns, provider, doc, impl, apiKey, client, messages, docWrites,
                   sent, plotted, log, panels, editor, generated>>

(* sendMessage after its await rejected: catch, then finally *)
ChatFail(i) ==
    /\ impl \in Flagged
    /\ i \in DOMAIN calls
    /\ calls[i].op \in {"chat", "diagram"}
    /\ ~calls[i].hung
    /\ isProcessing' = FALSE
    /\ calls' = Touch(Remove(calls, i))
    /\ ev' = Event("sendFailed", calls[i])
    /\ notes' = ClientNotes \o <<"error">>
    /\ UNCHANGED <<diffRun, otherRuns, provider, doc, impl, apiKey, client, persisted, messages, docWrites,
                   sent, plotted, log, panels, editor, generated>>

(* createPlotPanel up to its await: no look at _isProcessing *)
CreatePlotPanel(plotData) ==
    /\ impl = "chatView" /\ Alive
    /\ Budget
    /\ calls' = Append(Touch(calls), NewCall("plot", plotData))
    /\ plotted' = plotted + 1
    /\ ev' = Event("plotIssued", NoCall)
    /\ notes' = <<>>
    /\ UNCHANGED <<diffRun, otherRuns, provider, doc, impl, apiKey, client, persisted, messages, isProcessing,
                   docWrites, sent, log, panels, editor, generated>>

(* createPlotPanel after generatePlot resolved: displayChatBox pushes the  *)
(* data and refreshes the view; globalState is not updated.                *)
PlotReply(i, generatedData) ==
    /\ i \in DOMAIN calls
    /\ calls[i].op = "plot"
    /\ messages.kind = "array"
    /\ messages' = Push(Msg("assistant", generatedData))
    /\ log' = Append(log, Msg("assistant", generatedData))
    /\ calls' = Touch(Remove(calls, i))
    /\ ev' = Event("plotDone", calls[i])
    /\ notes' = <<>>
    /\ UNCHANGED <<diffRun, otherRuns, provider, doc, impl, apiKey, client, persisted, isProcessing, docWrites,
                   sent, plotted, panels, editor, generated>>

(* createPlotPanel's catch: generatePlot rejected, or the push threw       *)
(* because _messages is not an array.                                      *)
PlotFail(i) ==
    /\ i \in DOMAIN calls
    /\ calls[i].op = "plot"
    /\ calls' = Touch(Remove(calls, i))
    /\ ev' = Event("plotFailed", calls[i])
    /\ notes' = <<"error">>
    /\ UNCHANGED <<diffRun, otherRuns, provider, doc, impl, apiKey, client, persisted, messages, isProcessing,
                   docWrites, sent, plotted, log, panels, editor, generated>>

(* 'clear' of chatView.ts / part_002 *)
Clear ==
    /\ impl \in Flagged /\ Alive
    /\ messages' = Arr(<<>>)
    /\ persisted' = Arr(<<>>)
    /\ log' = <<>>
    /\ calls' = Cleared(calls)
    /\ ev' = Event("clear", NoCall)
    /\ notes' = <<>>
    /\ UNCHANGED <<diffRun, otherRuns, provider, doc, impl, apiKey, client, isProcessing, docWrites, sent,
                   plotted, panels, editor, generated>>

(* editBuilder.insert(editor.selection.active, code): the text goes in at  *)
(* the cursor, which moves past it; with a selection, at its active end.   *)
InsertAtCursor(d, code) ==
    IF d.sel = <<>> THEN [d EXCEPT !.pre = @ \o code]
    ELSE [d EXCEPT !.post = code \o @]

(* insertCode: an insert at the cursor when there is an editor, else nothing *)
InsertCode(code) ==
    /\ impl \in Flagged /\ Alive
    /\ Budget
    /\ docWrites' = IF editor
                    THEN Append(docWrites, [op |-> "insert", text |-> code])
                    ELSE docWrites
    /\ doc' = IF editor THEN InsertAtCursor(doc, code) ELSE doc
    /\ calls' = Touch(calls)
    /\ ev' = Event("insertCode", NoCall)
    /\ notes' = <<>>
    /\ UNCHANGED <<diffRun, otherRuns, provider, impl, apiKey, client, persisted,
                   messages, isProcessing, sent, plotted, log, panels, editor,
                   generated>>

(* extension.ts ChatViewProvider: every command returns at once when the   *)
(* provider has no client.                                                 *)
ExtIgnored ==
    /\ impl = "extension"
    /\ ~client
    /\ ev' = Event("ignored", NoCall)
    /\ notes' = <<>>
    /\ UNCHANGED <<diffRun, otherRuns, provider, doc, impl, apiKey, client, persisted, messages, isProcessing,
                   calls, docWrites, sent, plotted, log, panels, editor,
                   generated>>

(* 'send' up to its await: user message pushed, chat response requested *)
ExtSend(content) ==
    /\ impl = "extension"
    /\ client
    /\ Budget
    /\ calls' = Append(Touch(calls), NewCall("chat", content))
    /\ messages' = Push(Msg("user", content))
    /\ log' = Append(log, Msg("user", content))
    /\ sent' = sent + 1
    /\ ev' = Event("sendIssued", NoCall)
    /\ notes' = <<>>
    /\ UNCHANGED <<diffRun, otherRuns, provider, doc, impl, apiKey, client, persisted, isProcessing, docWrites,
                   plotted, panels, editor, generated>>

(* 'send' after its await resolved: push, slice(-10), update *)
ExtReply(i, response) ==
    /\ impl = "extension"
    /\ i \in DOMAIN calls
    /\ calls[i].op = "chat"
    /\ messages' = Arr(TrimHistory(Append(messages.items, Msg("assistant", response))))
    /\ log' = Append(log, Msg("assistant", response))
    /\ persisted' = messages'
    /\ calls' = Touch(Remove(calls, i))
    /\ ev' = Event("sendDone", calls[i])
    /\ notes' = <<>>
    /\ UNCHANGED <<diffRun, otherRuns, provider, doc, impl, apiKey, client, isProcessing, docWrites, sent,
                   plotted, panels, editor, generated>>

(* 'send' after its await rejected: the catch shows the error *)
ExtFail(i) ==
    /\ impl = "extension"
    /\ i \in DOMAIN calls
    /\ calls[i].op = "chat"
    /\ calls' = Touch(Remove(calls, i))
    /\ ev' = Event("sendFailed", calls[i])
    /\ notes' = ClientNotes \o <<"error">>
    /\ UNCHANGED <<diffRun, otherRuns, provider, doc, impl, apiKey, client, persisted, messages, isProcessing,
                   docWrites, sent, plotted, log, panels, editor, generated>>

(* 'clear' of extension.ts *)
ExtClear ==
    /\ impl = "extension"
    /\ client
    /\ messages' = Arr(<<>>)
    /\ persisted' = Arr(<<>>)
    /\ log' = <<>>
    /\ calls' = Cleared(calls)
    /\ ev' = Event("clear", NoCall)
    /\ notes' = <<>>
    /\ UNCHANGED <<diffRun, otherRuns, provider, doc, impl, apiKey, client, isProcessing, docWrites, sent,
                   plotted, panels, editor, generated>>

(* 'insert' of extension.ts *)
ExtInsert(code) ==
    /\ impl = "extension"
    /\ client
    /\ Budget
    /\ docWrites' = IF editor
                    THEN Append(docWrites, [op |-> "insert", text |-> code])
                    ELSE docWrites
    /\ doc' = IF editor THEN InsertAtCursor(doc, code) ELSE doc
    /\ calls' = Touch(calls)
    /\ ev' = Event("insertCode", NoCall)
    /\ notes' = IF editor THEN <<"info">> ELSE <<"error">>
    /\ UNCHANGED <<diffRun, otherRuns, provider, impl, apiKey, client, persisted,
                   messages, isProcessing, sent, plotted, log, panels, editor,
                   generated>>

(* The user edits the credential in the settings.  No provider rebuilds   *)
(* its client on a configuration change: activate's listener only re-runs  *)
(* verifyConfig, which warns when no key is left, and the older activate   *)
(* registers no listener at all.                                           *)
EditSettings(key) ==
    /\ key # apiKey
    /\ apiKey' = key
    /\ ev' = Event("settings", NoCall)
    /\ notes' = IF impl \in Flagged /\ Alive /\ key = ""
                THEN <<"warning">> ELSE <<>>
    /\ UNCHANGED <<diffRun, otherRuns, provider, doc, impl, client, persisted, messages,
                   isProcessing, calls, docWrites, sent, plotted, log, panels,
                   editor, generated>>

NextChat ==
    \/ \E c \in Contents : SendRejected(c)
    \/ \E c \in Contents : SendThrows(c)
    \/ \E c \in Contents : SendNoClient(c)
    \/ \E c \in Contents : SendMessage(c)
    \/ \E i \in 1..MaxCommands, r \in Replies : ChatReply(i, r)
    \/ \E i \in 1..MaxCommands : ChatFail(i)
    \/ \E d \in PlotData : CreatePlotPanel(d)
    \/ \E i \in 1..MaxCommands, d \in PlotData : PlotReply(i, d)
    \/ \E i \in 1..MaxCommands : PlotFail(i)
    \/ Clear
    \/ \E c \in Codes : InsertCode(c)
    \/ ExtIgnored
    \/ \E c \in Contents : ExtSend(c)
    \/ \E i \in 1..MaxCommands, r \in Replies : ExtReply(i, r)
    \/ \E i \in 1..MaxCommands : ExtFail(i)
    \/ ExtClear
    \/ \E c \in Codes : ExtInsert(c)
    \/ \E k \in {"", "k"} : EditSettings(k)

Spec == InitChat /\ [][NextChat]_vars

----------------------------------------------------------------------------
(* Progress of a send.  A provider may stop answering a call (Hang); the   *)
(* call then ends only when something aborts the request (Timeout).  The   *)
(* OpenAIClient of openAIClient.ts sets `timeout: 30000, maxRetries: 2`;   *)
(* OllamaClient.makeRequest calls fetch with no timeout or abort signal,   *)
(* so whether its request is ever aborted is left to the runtime.          *)

Hang(i) ==
    /\ impl \in Flagged
    /\ i \in DOMAIN calls
    /\ calls[i].op \in {"chat", "diagram"}
    /\ ~calls[i].hung
    /\ calls' = [calls EXCEPT ![i].hung = TRUE]
    /\ ev' = Event("hang", NoCall)
    /\ notes' = <<>>
    /\ UNCHANGED <<diffRun, otherRuns, provider, doc, impl, apiKey, client,
                   persisted, messages, isProcessing, docWrites, sent, plotted,
                   log, panels, editor, generated>>

(* The request of a hung call is aborted: chat rejects, then catch and     *)
(* finally of sendMessage run.                                             *)
Timeout(i) ==
    /\ impl \in Flagged
    /\ i \in DOMAIN calls
    /\ calls[i].op \in {"chat", "diagram"}
    /\ calls[i].hung
    /\ isProcessing' = FALSE
    /\ calls' = Touch(Remove(calls, i))
    /\ ev' = Event("sendFailed", calls[i])
    /\ notes' = ClientNotes \o <<"error">>
    /\ UNCHANGED <<diffRun, otherRuns, provider, doc, impl, apiKey, client,
                   persisted, messages, docWrites, sent, plotted, log, panels,
                   editor, generated>>

InitLive ==
    /\ InitChat
    /\ impl \in Flagged
    /\ apiKey = "k"
    /\ persisted = Arr(<<>>)

NextLive ==
    \/ \E c \in Contents : SendRejected(c)
    \/ \E c \in Contents : SendMessage(c)
    \/ \E i \in 1..MaxCommands, r \in Replies : ChatReply(i, r)
    \/ \E i \in 1..MaxCommands : ChatFail(i)
    \/ \E i \in 1..MaxCommands : Hang(i)
    \/ \E i \in 1..MaxCommands : Timeout(i)

(* A call the provider answers is answered in the end, and the timer of    *)
(* the OpenAI SDK fires in the end; nothing in the code makes the request  *)
(* of the Ollama client end.                                               *)
Answered ==
    \E i \in 1..MaxCommands : (\E r \in Replies : ChatReply(i, r)) \/ ChatFail(i)

SdkTimeout == provider = "OpenAI" /\ \E i \in 1..MaxCommands : Timeout(i)

SpecLive ==
    InitLive /\ [][NextLive]_vars /\ WF_vars(Answered) /\ WF_vars(SdkTimeout)

----------------------------------------------------------------------------
(* Code generation view and its review panels.                             *)
(* impl = "extension": CodeGenerationViewProvider and showCodeReviewWebview *)
(*                     of extension.ts:213-383;                            *)
(* impl = "chatView":  codeGenView.ts (extension.ts:517-799) with the      *)
(*                     applyCodeChanges of utils.ts.                       *)

GenImpls == {"extension", "chatView"}
Prompts == { <<>>, <<"N">>, <<"x">> }

(* The webview of a panel posts its messages to the extension host, which  *)
(* hands them to the panel's onDidReceiveMessage listener one at a time; a *)
(* disposed panel has no webview and its listener is never called again.   *)
(* A review panel: the generated code it proposes, the two arguments its   *)
(* diff was computed from, and what became of it.  `handed` lists the      *)
(* texts its handler passed to applyCodeChanges.                           *)
Panel(code, old, new) ==
    [code |-> code, diffOld |-> old, diffNew |-> new,
     status |-> "pending", disposed |-> FALSE, inbox |-> <<>>,
     clicks |-> 0, applies |-> 0, handed |-> <<>>]

(* extension.ts:300-306 `currentContent` of showCodeReviewWebview *)
CurrentContent ==
    IF editor THEN (IF doc.sel = <<>> THEN GetText(doc) ELSE doc.sel) ELSE <<>>

(* The arguments of the generateDiffHtml call that fills a new panel:      *)
(* showCodeReviewWebview passes (currentContent, generatedCode),           *)
(* showCodeReview passes (this._generatedCode, this._generatedCode).       *)
DiffArgs(code) ==
    IF impl = "extension" THEN <<CurrentContent, code>> ELSE <<code, code>>

InitReview ==
    /\ impl \in GenImpls
    /\ apiKey \in {"", "k"}
    /\ client = (apiKey # "")
    /\ persisted = Arr(<<>>)
    /\ messages = Arr(<<>>)
    /\ isProcessing = FALSE
    /\ calls = <<>>
    /\ docWrites = <<>>
    /\ sent = 0
    /\ plotted = 0
    /\ log = <<>>
    /\ ev = Event("init", NoCall)
    /\ notes = <<>>
    /\ panels = <<>>
    /\ editor \in BOOLEAN
    /\ generated = 0
    /\ provider \in Providers
    /\ doc \in (IF editor THEN Docs ELSE {EmptyDoc})
    /\ diffRun = NoDiff
    /\ clientRun = NoClientRun
    /\ fenceRun = NoFenceRun
    /\ assistant = IdleAssistant

(* Button clicks made so far, over all panels. *)
RECURSIVE Clicks(_)
Clicks(ps) == IF ps = <<>> THEN 0 ELSE Head(ps).clicks + Clicks(Tail(ps))

(* Commands (generate, button clicks) still to be issued in a run. *)
ReviewBudget == generated + Clicks(panels) < MaxReviewCommands

(* extension.ts:265 `if (!this._client) return;` *)
GenIgnored ==
    /\ impl = "extension"
    /\ ~client
    /\ ev' = Event("ignored", NoCall)
    /\ notes' = <<>>
    /\ UNCHANGED <<diffRun, otherRuns, doc, chatVars, docWrites, panels, editor, generated>>

(* handleGenerateCode with a blank prompt *)
GenBlankPrompt(prompt) ==
    /\ impl = "chatView"
    /\ Trim(prompt) = <<>>
    /\ ev' = Event("generateRejected", NoCall)
    /\ notes' = <<"warning">>
    /\ UNCHANGED <<diffRun, otherRuns, doc, chatVars, docWrites, panels, editor, generated>>

(* handleGenerateCode when getLLMClient throws inside the try *)
GenNoClient(prompt) ==
    /\ impl = "chatView"
    /\ Trim(prompt) # <<>>
    /\ apiKey = ""
    /\ ev' = Event("generateFailed", NoCall)
    /\ notes' = <<"error", "error">>
    /\ UNCHANGED <<diffRun, otherRuns, doc, chatVars, docWrites, panels, editor, generated>>

(* 'generate' up to its await *)
Generate(prompt) ==
    /\ impl \in GenImpls
    /\ impl = "extension" => client
    /\ impl = "chatView" => Trim(prompt) # <<>> /\ apiKey # ""
    /\ generated < MaxGens /\ ReviewBudget
    /\ calls' = Append(calls, NewCall("generate", prompt))
    /\ generated' = generated + 1
    /\ ev' = Event("generateIssued", NoCall)
    /\ notes' = <<>>
    /\ UNCHANGED <<diffRun, otherRuns, provider, doc, impl, apiKey, client, persisted, messages, isProcessing,
                   docWrites, sent, plotted, log, panels, editor>>

(* 'generate' after its await resolved: a review panel is opened *)
GenReply(i, code) ==
    /\ i \in DOMAIN calls
    /\ calls[i].op = "generate"
    /\ panels' = Append(panels, Panel(code, DiffArgs(code)[1], DiffArgs(code)[2]))
    /\ calls' = Remove(calls, i)
    /\ ev' = Event("generateDone", calls[i])
    /\ notes' = <<>>
    /\ UNCHANGED <<diffRun, otherRuns, provider, doc, impl, apiKey, client, persisted, messages, isProcessing,
                   docWrites, sent, plotted, log, editor, generated>>

(* GenFail with showCodeReview in a finally: a panel for the code of the   *)
(* failed request is opened all the same.                                  *)
GenFail_OpensPanel(i) ==
    /\ i \in DOMAIN calls
    /\ calls[i].op = "generate"
    /\ calls' = Remove(calls, i)
    /\ panels' = Append(panels, Panel(<<>>, DiffArgs(<<>>)[1], DiffArgs(<<>>)[2]))
    /\ ev' = Event("generateFailed", calls[i])
    /\ notes' = ClientNotes \o <<"error">>
    /\ UNCHANGED <<diffRun, otherRuns, provider, doc, impl, apiKey, client, persisted,
                   messages, isProcessing, docWrites, sent, plotted, log,
                   editor, generated>>

(* 'generate' after its await rejected *)
GenFail(i) ==
    /\ i \in DOMAIN calls
    /\ calls[i].op = "generate"
    /\ calls' = Remove(calls, i)
    /\ ev' = Event("generateFailed", calls[i])
    /\ notes' = ClientNotes \o <<"error">>
    /\ UNCHANGED <<diffRun, otherRuns, provider, doc, impl, apiKey, client, persisted, messages, isProcessing,
                   docWrites, sent, plotted, log, panels, editor, generated>>

(* The buttons of a review panel's page: accept() and discard().           *)
AcceptPosts == IF impl = "extension" THEN <<"accept">> ELSE <<"insert", "close">>
DiscardPosts == IF impl = "extension" THEN <<"discard">> ELSE <<"close">>

ClickAccept(p) ==
    /\ p \in DOMAIN panels
    /\ ~panels[p].disposed
    /\ Clicks(panels) < MaxClicks /\ ReviewBudget
    /\ panels' = [panels EXCEPT ![p].inbox = @ \o AcceptPosts,
                                ![p].clicks = @ + 1]
    /\ ev' = Event("click", NoCall)
    /\ notes' = <<>>
    /\ UNCHANGED <<diffRun, otherRuns, doc, chatVars, docWrites, editor, generated>>

ClickDiscard(p) ==
    /\ p \in DOMAIN panels
    /\ ~panels[p].disposed
    /\ Clicks(panels) < MaxClicks /\ ReviewBudget
    /\ panels' = [panels EXCEPT ![p].inbox = @ \o DiscardPosts,
                                ![p].clicks = @ + 1]
    /\ ev' = Event("click", NoCall)
    /\ notes' = <<>>
    /\ UNCHANGED <<diffRun, otherRuns, doc, chatVars, docWrites, editor, generated>>

(* applyCodeChanges(code): one replace when there is an active editor.     *)
ApplyWrites(code) ==
    IF editor THEN Append(docWrites, [op |-> "replace", text |-> code])
    ELSE docWrites

(* editBuilder.replace(range, code): the whole document when the selection *)
(* is empty, else the selection, which then spans the new text.            *)
ApplyEdit(code) ==
    IF ~editor THEN doc
    ELSE IF doc.sel = <<>> THEN Document(code, <<>>, <<>>)
    ELSE [doc EXCEPT !.sel = code]

(* extension.ts applyCodeChanges notifies either way, utils.ts never does. *)
ApplyNotes ==
    IF impl = "extension" THEN (IF editor THEN <<"info">> ELSE <<"error">>)
    ELSE <<>>

(* HandleMessage applying the provider's latest code (the newest panel's)  *)
(* instead of the code the panel was opened for.                           *)
HandleMessage_AppliesLatest(p) ==
    /\ p \in DOMAIN panels
    /\ ~panels[p].disposed
    /\ panels[p].inbox # <<>>
    /\ LET m == Head(panels[p].inbox)
           latest == panels[Len(panels)].code
       IN  IF m \in {"accept", "insert"}
           THEN /\ docWrites' = ApplyWrites(latest)
                /\ doc' = ApplyEdit(latest)
                /\ notes' = ApplyNotes
                /\ panels' = [panels EXCEPT ![p].inbox = <<>>,
                                            ![p].applies = @ + 1,
                                            ![p].handed = Append(@, latest),
                                            ![p].disposed = TRUE,
                                            ![p].status = "applied"]
                /\ ev' = Event("accept", NoCall)
           ELSE /\ docWrites' = docWrites
                /\ doc' = doc
                /\ notes' = <<>>
                /\ panels' = [panels EXCEPT ![p].inbox = <<>>,
                                            ![p].disposed = TRUE,
                                            ![p].status = "discarded"]
                /\ ev' = Event("discard", NoCall)
    /\ UNCHANGED <<diffRun, otherRuns, chatVars, editor, generated>>

(* HandleMessage without panel.dispose(): the panel keeps listening *)
HandleMessage_NoDispose(p) ==
    /\ p \in DOMAIN panels
    /\ ~panels[p].disposed
    /\ panels[p].inbox # <<>>
    /\ LET m == Head(panels[p].inbox)
       IN  IF m \in {"accept", "insert"}
           THEN /\ docWrites' = ApplyWrites(panels[p].code)
                /\ doc' = ApplyEdit(panels[p].code)
                /\ notes' = ApplyNotes
                /\ panels' = [panels EXCEPT ![p].inbox = Tail(@),
                                            ![p].applies = @ + 1,
                                            ![p].handed = Append(@, panels[p].code),
                                            ![p].status = "applied"]
                /\ ev' = Event("accept", NoCall)
           ELSE /\ docWrites' = docWrites
                /\ doc' = doc
                /\ notes' = <<>>
                /\ panels' = [panels EXCEPT ![p].inbox = Tail(@),
                                            ![p].status = "discarded"]
                /\ ev' = Event("discard", NoCall)
    /\ UNCHANGED <<diffRun, otherRuns, chatVars, editor, generated>>

(* panel.webview.onDidReceiveMessage of a review panel *)
HandleMessage(p) ==
    /\ p \in DOMAIN panels
    /\ ~panels[p].disposed
    /\ panels[p].inbox # <<>>
    /\ LET m == Head(panels[p].inbox)
       IN  IF m \in {"accept", "insert"}
           THEN /\ docWrites' = ApplyWrites(panels[p].code)
                /\ doc' = ApplyEdit(panels[p].code)
                /\ notes' = ApplyNotes
                /\ panels' = [panels EXCEPT ![p].inbox = <<>>,
                                            ![p].applies = @ + 1,
                                            ![p].handed = Append(@, panels[p].code),
                                            ![p].disposed = TRUE,
                                            ![p].status = "applied"]
                /\ ev' = Event("accept", NoCall)
           ELSE /\ docWrites' = docWrites
                /\ doc' = doc
                /\ notes' = <<>>
                /\ panels' = [panels EXCEPT ![p].inbox = <<>>,
                                            ![p].disposed = TRUE,
                                            ![p].status = "discarded"]
                /\ ev' = Event("discard", NoCall)
    /\ UNCHANGED <<diffRun, otherRuns, chatVars, editor, generated>>

(* The user closes the active editor, or activates another document or   *)
(* selection.                                                              *)
SwitchEditor ==
    /\ \E e \in BOOLEAN, d \in Docs :
          /\ editor' = e
          /\ doc' = IF e THEN d ELSE EmptyDoc
          /\ <<editor', doc'>> # <<editor, doc>>
    /\ ev' = Event("editor", NoCall)
    /\ notes' = <<>>
    /\ UNCHANGED <<diffRun, otherRuns, chatVars, docWrites, panels, generated>>

NextReview ==
    \/ GenIgnored
    \/ \E q \in Prompts : GenBlankPrompt(q)
    \/ \E q \in Prompts : GenNoClient(q)
    \/ \E q \in Prompts : Generate(q)
    \/ \E i \in 1..MaxGens, c \in GeneratedCodes : GenReply(i, c)
    \/ \E i \in 1..MaxGens : GenFail(i)
    \/ \E p \in 1..MaxGens : ClickAccept(p)
    \/ \E p \in 1..MaxGens : ClickDiscard(p)
    \/ \E p \in 1..MaxGens : HandleMessage(p)
    \/ SwitchEditor

SpecReview == InitReview /\ [][NextReview]_vars

----------------------------------------------------------------------------
(* The client factories and the clients' chat.  A credential is a string:  *)
(* Undefined stands for a setting that is not there, " " for one made of   *)
(* white space only.  A message list is the list of its roles.             *)

Undefined == "undefined"
Keys == { Undefined, "", " ", "k" }
Names == { "OpenAI", "Ollama", "openai", "Other", "" }
Roles == { "system", "user", "assistant", "tool" }
RoleLists == UNION { [1..n -> Roles] : n \in 0..MaxMsgs }
Factories == { "llmClient", "extension" }

(* `!apiKey` *)
Falsy(key) == key \in { Undefined, "" }

(* `apiKey?.trim()` *)
TrimKey(key) == IF key = " " THEN "" ELSE key

(* config.apiKeys[provider.toLowerCase()]: the settings hold a key for     *)
(* openai and one for ollama only.                                         *)
Lookup(name, key) ==
    IF name \in {"OpenAI", "openai", "Ollama"} THEN key ELSE Undefined

(* The classes a factory's `new OpenAIClient` / `new OllamaClient` may be  *)
(* bound to: the repository holds several classes of each name.            *)
ClassesOf(factory, name) ==
    IF factory = "llmClient"
    THEN (IF name = "OpenAI" THEN {"OpenAINew", "OpenAIFetch"}
          ELSE {"OllamaNew", "OllamaOld"})
    ELSE (IF name = "OpenAI" THEN {"OpenAIOld"} ELSE {"OllamaOld"})

(* The constructors: does `new C(key)` return? *)
Constructs(class, key) ==
    CASE class = "OpenAINew" -> ~Falsy(TrimKey(key))
      [] class = "OllamaNew" -> ~Falsy(key)
      [] class = "OpenAIOld" -> ~Falsy(key)
      [] OTHER -> TRUE

Failed(error, notified) ==
    [stage |-> "failed", class |-> "none", error |-> error,
     notes |-> IF notified THEN <<"error">> ELSE <<>>]

Built(class, key) ==
    IF Constructs(class, key)
    THEN [stage |-> "obtained", class |-> class, error |-> "none", notes |-> <<>>]
    ELSE Failed("keyMissing", FALSE)

(* getLLMClient whose default case builds a client all the same *)
getLLMClient_DefaultBuilds(factory, name, key, class) ==
    IF factory = "extension" /\ name = "" THEN Failed("noProvider", TRUE)
    ELSE IF Falsy(Lookup(name, key)) THEN Failed("keyMissing", TRUE)
    ELSE Built(class, Lookup(name, key))

(* getLLMClient without its `!apiKey` test *)
getLLMClient_NoKeyTest(factory, name, key, class) ==
    IF factory = "extension" /\ name = "" THEN Failed("noProvider", TRUE)
    ELSE IF name \in {"OpenAI", "Ollama"} THEN Built(class, Lookup(name, key))
    ELSE Failed("unsupported", factory = "extension")

(* getLLMClient of llmClient.ts (throws) and of extension.ts (returns      *)
(* undefined); `class` is the class the matching case constructs.          *)
getLLMClient(factory, name, key, class) ==
    IF factory = "extension" /\ name = "" THEN Failed("noProvider", TRUE)
    ELSE IF Falsy(Lookup(name, key)) THEN Failed("keyMissing", TRUE)
    ELSE IF name \in {"OpenAI", "Ollama"} THEN Built(class, Lookup(name, key))
    ELSE Failed("unsupported", factory = "extension")

(* OpenAIClient.chat of openAIClient.ts tests the list and the roles       *)
(* before it calls the API; no other class looks at its argument.          *)
chatRejects(class, msgs) ==
    /\ class = "OpenAINew"
    /\ \/ msgs = <<>>
       \/ \E i \in DOMAIN msgs : msgs[i] \notin {"system", "user", "assistant"}

InitClient ==
    /\ impl = "chatView"
    /\ apiKey = "k"
    /\ client = TRUE
    /\ persisted = Arr(<<>>)
    /\ messages = Arr(<<>>)
    /\ isProcessing = FALSE
    /\ calls = <<>>
    /\ docWrites = <<>>
    /\ sent = 0
    /\ plotted = 0
    /\ log = <<>>
    /\ ev = Event("init", NoCall)
    /\ notes = <<>>
    /\ panels = <<>>
    /\ editor = TRUE
    /\ generated = 0
    /\ provider = "OpenAI"
    /\ doc = EmptyDoc
    /\ diffRun = NoDiff
    /\ fenceRun = NoFenceRun
    /\ assistant = IdleAssistant
    /\ \E f \in Factories, n \in Names, k \in Keys, ms \in RoleLists :
          clientRun = [NoClientRun EXCEPT !.factory = f, !.name = n, !.key = k,
                                          !.msgs = ms, !.stage = "start"]

(* One call getLLMClient(config). *)
Obtain(class) ==
    /\ clientRun.stage = "start"
    /\ class \in ClassesOf(clientRun.factory, clientRun.name)
    /\ LET r == getLLMClient(clientRun.factory, clientRun.name, clientRun.key, class)
       IN  /\ clientRun' = [clientRun EXCEPT !.stage = r.stage, !.class = r.class,
                                              !.error = r.error, !.notes = r.notes]
           /\ notes' = r.notes
    /\ ev' = Event("obtain", NoCall)
    /\ UNCHANGED <<chatVars, docWrites, panels, editor, generated, doc,
                   diffRun, fenceRun, assistant>>

(* client.chat(msgs) up to its network request; the request carries the    *)
(* key the client was constructed with.                                    *)
CallChat ==
    /\ clientRun.stage = "obtained"
    /\ IF chatRejects(clientRun.class, clientRun.msgs)
       THEN /\ clientRun' = [clientRun EXCEPT !.stage = "rejected",
                                               !.notes = <<"error">>]
            /\ notes' = <<"error">>
       ELSE /\ clientRun' =
                 [clientRun EXCEPT !.stage = "requested",
                    !.requests = Append(@, [key |-> Lookup(clientRun.name, clientRun.key),
                                            msgs |-> clientRun.msgs])]
            /\ notes' = <<>>
    /\ ev' = Event("chat", NoCall)
    /\ UNCHANGED <<chatVars, docWrites, panels, editor, generated, doc,
                   diffRun, fenceRun, assistant>>

NextClient ==
    \/ \E c \in {"OpenAINew", "OpenAIFetch", "OllamaNew", "OpenAIOld", "OllamaOld"} :
          Obtain(c)
    \/ CallChat

SpecClient == InitClient /\ [][NextClient]_vars

----------------------------------------------------------------------------
(* The line diff of the review panel: extension.ts generateDiffHtml.  A     *)
(* text is a sequence of characters, "N" the newline; the output is the    *)
(* sequence of <pre> elements, each with its class and its escaped text.   *)

DiffTokens == { "x", "<", "N" }
DiffTexts == UNION { [1..n -> DiffTokens] : n \in 0..MaxTextLen }

(* s.split('\n') *)
RECURSIVE Split(_)
Split(s) ==
    IF \A i \in DOMAIN s : s[i] # "N" THEN << s >>
    ELSE LET k == CHOOSE i \in DOMAIN s :
                      s[i] = "N" /\ \A j \in 1..(i - 1) : s[j] # "N"
         IN  << SubSeq(s, 1, k - 1) >> \o Split(SubSeq(s, k + 1, Len(s)))

(* escapeHtml: '<' becomes the entity, "x" stands for the characters that  *)
(* are left alone.                                                         *)
escapeHtml(text) ==
    [i \in 1..Len(text) |-> IF text[i] = "<" THEN "&lt;" ELSE text[i]]

DiffLine(kind, line) == [kind |-> kind, text |-> escapeHtml(line)]

(* `lines[i] || ''`: a missing line reads as the empty string *)
LineAt(lines, i) == IF i <= Len(lines) THEN lines[i] ELSE <<>>

(* The loop body with the `!currentLine` test ahead of the comparison.     *)
DiffAt_BlankFirst(currentLine, generatedLine) ==
    IF currentLine = <<>> THEN << DiffLine("added", generatedLine) >>
    ELSE IF currentLine = generatedLine
    THEN << DiffLine("unchanged", currentLine) >>
    ELSE IF generatedLine = <<>> THEN << DiffLine("removed", currentLine) >>
    ELSE << DiffLine("removed", currentLine), DiffLine("added", generatedLine) >>

(* The loop body of generateDiffHtml; `!line` is true of the empty string. *)
DiffAt(currentLine, generatedLine) ==
    IF currentLine = generatedLine
    THEN << DiffLine("unchanged", currentLine) >>
    ELSE IF currentLine = <<>> THEN << DiffLine("added", generatedLine) >>
    ELSE IF generatedLine = <<>> THEN << DiffLine("removed", currentLine) >>
    ELSE << DiffLine("removed", currentLine), DiffLine("added", generatedLine) >>

RECURSIVE DiffFrom(_, _, _)
DiffFrom(currentLines, generatedLines, i) ==
    IF i > Len(currentLines) /\ i > Len(generatedLines) THEN <<>>
    ELSE DiffAt(LineAt(currentLines, i), LineAt(generatedLines, i))
         \o DiffFrom(currentLines, generatedLines, i + 1)

generateDiffHtml(currentContent, generatedCode) ==
    DiffFrom(Split(currentContent), Split(generatedCode), 1)

InitDiff ==
    /\ impl = "extension"
    /\ apiKey = "k"
    /\ client = TRUE
    /\ persisted = Arr(<<>>)
    /\ messages = Arr(<<>>)
    /\ isProcessing = FALSE
    /\ calls = <<>>
    /\ docWrites = <<>>
    /\ sent = 0
    /\ plotted = 0
    /\ log = <<>>
    /\ ev = Event("init", NoCall)
    /\ notes = <<>>
    /\ panels = <<>>
    /\ editor = TRUE
    /\ generated = 0
    /\ provider = "OpenAI"
    /\ doc = EmptyDoc
    /\ \E a, b \in DiffTexts :
          diffRun = [old |-> a, new |-> b, done |-> FALSE, out |-> <<>>]
    /\ clientRun = NoClientRun
    /\ fenceRun = NoFenceRun
    /\ assistant = IdleAssistant

(* One call generateDiffHtml(old, new). *)
RunDiff ==
    /\ ~diffRun.done
    /\ diffRun' = [diffRun EXCEPT !.done = TRUE,
                                  !.out = generateDiffHtml(diffRun.old, diffRun.new)]
    /\ ev' = Event("diff", NoCall)
    /\ notes' = <<>>
    /\ UNCHANGED <<chatVars, docWrites, panels, editor, generated, doc,
                   otherRuns>>

NextDiff == RunDiff

SpecDiff == InitDiff /\ [][NextDiff]_vars

----------------------------------------------------------------------------
(* showMermaidDiagram of the chat view on its own: one response, one call *)

FenceTokens == { "x", "N", "F", "M" }
FenceTexts == UNION { [1..n -> FenceTokens] : n \in 0..MaxFenceLen }

InitFence ==
    /\ impl = "chatView"
    /\ apiKey = "k"
    /\ client = TRUE
    /\ persisted = Arr(<<>>)
    /\ messages = Arr(<<>>)
    /\ isProcessing = FALSE
    /\ calls = <<>>
    /\ docWrites = <<>>
    /\ sent = 0
    /\ plotted = 0
    /\ log = <<>>
    /\ ev = Event("init", NoCall)
    /\ notes = <<>>
    /\ panels = <<>>
    /\ editor = TRUE
    /\ generated = 0
    /\ provider = "OpenAI"
    /\ doc = EmptyDoc
    /\ diffRun = NoDiff
    /\ clientRun = NoClientRun
    /\ assistant = IdleAssistant
    /\ \E t \in FenceTexts : fenceRun = [NoFenceRun EXCEPT !.text = t]

(* One call showMermaidDiagram(diagramContent): the extracted content is *)
(* pushed as an assistant message and the history is persisted.          *)
showMermaidDiagram ==
    /\ ~fenceRun.done
    /\ fenceRun' = [fenceRun EXCEPT !.done = TRUE,
                                    !.payload = MermaidContent(fenceRun.text)]
    /\ messages' = Arr(Append(messages.items,
                              Msg("assistant", MermaidContent(fenceRun.text))))
    /\ persisted' = messages'
    /\ ev' = Event("diagram", NoCall)
    /\ notes' = <<>>
    /\ UNCHANGED <<impl, apiKey, client, isProcessing, calls, sent, plotted,
                   log, provider, docWrites, panels, editor, generated, doc,
                   diffRun, clientRun, assistant>>

NextFence == showMermaidDiagram

SpecFence == InitFence /\ [][NextFence]_vars

----------------------------------------------------------------------------
(* The commands of AIAssistant: generateTest, explainSelection, codeReview *)

AssistantCommands == { "generateTest", "explainSelection", "codeReview" }

InitAssistant ==
    /\ impl = "chatView"
    /\ apiKey \in {"", "k"}
    /\ client = TRUE
    /\ persisted = Arr(<<>>)
    /\ messages = Arr(<<>>)
    /\ isProcessing = FALSE
    /\ calls = <<>>
    /\ docWrites = <<>>
    /\ sent = 0
    /\ plotted = 0
    /\ log = <<>>
    /\ ev = Event("init", NoCall)
    /\ notes = <<>>
    /\ panels = <<>>
    /\ editor \in BOOLEAN
    /\ generated = 0
    /\ provider \in Providers
    /\ doc \in (IF editor THEN Docs ELSE {EmptyDoc})
    /\ diffRun = NoDiff
    /\ clientRun = NoClientRun
    /\ fenceRun = NoFenceRun
    /\ assistant = IdleAssistant

AssistantRest ==
    <<chatVars, docWrites, panels, editor, generated, doc, diffRun, clientRun,
      fenceRun>>

(* Where `_isProcessing = true` stands: explainSelection sets the flag and *)
(* tests the editor and the selection before its try block, the other two  *)
(* commands test them inside the try, whose finally clears the flag.       *)
ChecksInsideTry(cmd) == cmd # "explainSelection"

(* One command, up to its first await or to its return. *)
Command(cmd) ==
    /\ assistant.issued < MaxAssistantCommands
    /\ IF assistant.isProcessing
         THEN /\ assistant' = [assistant EXCEPT !.issued = @ + 1]
              /\ ev' = Event("busy", NoCall)
              /\ notes' = <<"warning">>
       ELSE IF ~editor \/ doc.sel = <<>>
         THEN /\ assistant' = [assistant EXCEPT !.issued = @ + 1,
                                   !.isProcessing = ~ChecksInsideTry(cmd),
                                   !.cmd = cmd]
              /\ ev' = Event("returned", NoCall)
              /\ notes' = IF editor THEN <<"warning">> ELSE <<>>
       ELSE \E class \in ClassesOf("llmClient", provider) :
              LET got == getLLMClient("llmClient", provider, apiKey, class)
              IN  IF got.stage = "failed"
                  THEN /\ assistant' = [assistant EXCEPT !.issued = @ + 1,
                                            !.isProcessing = FALSE, !.cmd = cmd]
                       /\ ev' = Event("returned", NoCall)
                       /\ notes' = <<"error">>
                  ELSE /\ assistant' = [assistant EXCEPT !.issued = @ + 1,
                                            !.isProcessing = TRUE,
                                            !.inFlight = 1, !.cmd = cmd]
                       /\ ev' = Event("issued", NoCall)
                       /\ notes' = <<>>
    /\ UNCHANGED AssistantRest

(* The provider answers: the explanation panel is shown, finally runs. *)
AssistantReply ==
    /\ assistant.inFlight = 1
    /\ assistant' = [assistant EXCEPT !.inFlight = 0, !.isProcessing = FALSE]
    /\ ev' = Event("returned", NoCall)
    /\ notes' = <<>>
    /\ UNCHANGED AssistantRest

(* The provider call rejects: catch shows the error, finally runs. *)
AssistantFail ==
    /\ assistant.inFlight = 1
    /\ assistant' = [assistant EXCEPT !.inFlight = 0, !.isProcessing = FALSE]
    /\ ev' = Event("returned", NoCall)
    /\ notes' = <<"error">>
    /\ UNCHANGED AssistantRest

NextAssistant ==
    \/ \E cmd \in AssistantCommands : Command(cmd)
    \/ AssistantReply
    \/ AssistantFail
    \/ SwitchEditor

SpecAssistant == InitAssistant /\ [][NextAssistant]_vars

----------------------------------------------------------------------------
(* Properties *)

SendPending == \E i \in DOMAIN calls : calls[i].op \in {"chat", "diagram"}

IsSuffix(a, b) ==
    /\ Len(a) <= Len(b)
    /\ a = SubSeq(b, Len(b) - Len(a) + 1, Len(b))

(* What a finished send started from, then its user message. *)
WithUser(call) == Append(call.h0, Msg("user", call.content))

(* C1: at most one provider request of a conversation store is in flight   *)
(* at any time, whatever commands (send, plot, clear, insertCode) arrive.  *)
C1_SingleInFlight == Len(calls) <= 1

C3_HistoryWithinCap == Len(messages.items) <= Cap

(* C4: the history is always a contiguous suffix of the messages appended  *)
(* since the last clear, in their append order.                            *)
C4_HistoryIsSuffixOfAppends == IsSuffix(messages.items, log)

C4_Witness ==
    /\ impl = "extension"
    /\ Len(messages.items) = Cap
    /\ Len(log) > Cap
    /\ ev.kind = "sendDone"

(* C5: a send's user message is appended only when no earlier send of the  *)
(* store is still waiting for its reply, so replies are applied in the     *)
(* order the requests were issued.                                         *)
C5_RepliesInIssueOrder ==
    [][(Len(log') = Len(log) + 1 /\ log'[Len(log')].role = "user")
          => ~SendPending]_vars

(* C6 as stated: when a send's provider call has failed, the history is    *)
(* the history before the send plus the user message, and the persisted    *)
(* history is what it was when the send started (here for the part_002     *)
(* store, which has the pending flag and no plot command).                 *)
C6_FailedSendAsStated ==
    (impl = "part_002" /\ ev.kind = "sendFailed") =>
        /\ messages = Arr(WithUser(ev.call))
        /\ persisted = ev.call.p0

(* C6 amended: when a send's provider call has failed and no other command *)
(* was handled between the send and the failure, the history is the        *)
(* history before the send plus the user message only, and the persisted   *)
(* history is what it was when the send started.                           *)
C6_FailedSendKeepsUserOnly ==
    (ev.kind = "sendFailed" /\ ev.call.clean) =>
        /\ messages = Arr(WithUser(ev.call))
        /\ persisted = ev.call.p0

C6_Witness ==
    /\ ev.kind = "sendFailed"
    /\ ev.call.clean
    /\ ev.call.h0 # <<>>
    /\ persisted # messages

(* C7 as stated: a successful send on history H with no other command in   *)
(* between ends with history H, the user message, one assistant message,   *)
(* and with the persisted history equal to it.                             *)
C7_SuccessfulSendAsStated ==
    (ev.kind = "sendDone" /\ ev.call.clean) =>
        /\ messages.kind = "array"
        /\ Len(messages.items) = Len(ev.call.h0) + 2
        /\ SubSeq(messages.items, 1, Len(ev.call.h0) + 1) = WithUser(ev.call)
        /\ messages.items[Len(messages.items)].role = "assistant"
        /\ persisted = messages

(* C7 amended: a successful send on history H with no other command in     *)
(* between ends with history H, the user message, one assistant message,   *)
(* cut to its last Cap messages in the store that trims (extension.ts),    *)
(* and with the persisted history equal to the in-memory history.          *)
C7_SuccessfulSendAppendsPair ==
    (ev.kind = "sendDone" /\ ev.call.clean) =>
        /\ messages.kind = "array"
        /\ messages.items # <<>>
        /\ LET last == messages.items[Len(messages.items)]
               full == Append(WithUser(ev.call), last)
               kept == IF impl = "extension" /\ Len(full) > Cap
                       THEN SubSeq(full, Len(full) - Cap + 1, Len(full))
                       ELSE full
           IN  /\ last.role = "assistant"
               /\ messages.items = kept
               /\ persisted = messages

C7_Witness ==
    /\ ev.kind = "sendDone"
    /\ ev.call.clean
    /\ ev.call.h0 = <<>>
    /\ Len(messages.items) = 2
    /\ persisted = messages

(* C8: whenever an operation that appended a message (send, diagram, plot) *)
(* has finished without error, the persisted history holds every message   *)
(* of the in-memory history.                                               *)
C8_PersistedAfterEveryAppend ==
    ev.kind \in {"sendDone", "plotDone"} => persisted = messages

(* C9: a store restored from a value that is not a sequence of messages    *)
(* (absent, null, an object, a string) starts with an empty history, and   *)
(* no later command throws on the history.                                 *)
C9_MalformedRestoresEmpty ==
    /\ (Alive /\ ev.kind = "init" /\ persisted.kind # "array")
           => messages = Arr(<<>>)
    /\ ev.kind # "sendThrew"

(* C10: a review candidate that was applied or discarded never changes     *)
(* again: the document-mutation boundary is invoked at most once for it,   *)
(* and never after a discard.                                              *)
C10_ReviewDecisionIsFinal ==
    [][\A p \in DOMAIN panels :
          /\ panels'[p].applies <= 1
          /\ panels[p].status # "pending" =>
                /\ panels'[p].status = panels[p].status
                /\ panels'[p].applies = panels[p].applies
          /\ panels'[p].status = "discarded" => panels'[p].applies = 0]_vars

C10_Witness ==
    \E p \in DOMAIN panels :
        /\ panels[p].status = "applied"
        /\ panels[p].applies = 1
        /\ panels[p].clicks = MaxClicks

(* C11: when a pending review panel is decided, accept hands exactly the   *)
(* panel's proposed text to applyCodeChanges exactly once (one replace is  *)
(* written when an editor is active) and the panel ends applied; discard   *)
(* hands nothing over, writes nothing and the panel ends discarded; and a  *)
(* decided panel never holds more than that.                               *)
C11_DecisionAppliesOnceOrNever ==
    [][ /\ \A p \in DOMAIN panels :
             (panels[p].status = "pending" /\ panels'[p].status # "pending") =>
               IF ev'.kind = "accept"
               THEN /\ panels'[p].status = "applied"
                    /\ panels'[p].handed = <<panels[p].code>>
                    /\ panels'[p].applies = 1
                    /\ docWrites' =
                         IF editor
                         THEN Append(docWrites, [op |-> "replace",
                                                 text |-> panels[p].code])
                         ELSE docWrites
               ELSE /\ panels'[p].status = "discarded"
                    /\ panels'[p].handed = <<>>
                    /\ panels'[p].applies = 0
                    /\ docWrites' = docWrites
        /\ \A p \in DOMAIN panels' :
             /\ panels'[p].status = "applied" =>
                  panels'[p].handed = <<panels'[p].code>>
             /\ panels'[p].status = "discarded" => panels'[p].handed = <<>>
      ]_vars

(* An accepted panel whose code was written, beside a panel opened for     *)
(* another code.                                                           *)
C11_Witness ==
    /\ ev.kind = "accept"
    /\ \E p, q \in DOMAIN panels :
          /\ panels[p].status = "applied"
          /\ panels[p].handed = <<panels[p].code>>
          /\ q > p
          /\ panels[q].code # panels[p].code
          /\ docWrites # <<>>

(* C12: at any time at most one review panel is pending, also when a       *)
(* generation completes while an earlier panel is still pending.           *)
C12_AtMostOnePending ==
    Cardinality({p \in DOMAIN panels : panels[p].status = "pending"}) <= 1

(* C13: the diff stored with a new review panel has the active document's  *)
(* text at creation time (empty without a document) as its original side   *)
(* and the generated text as its proposed side.                            *)
C13_DiffOfDocumentAndGenerated ==
    [][ Len(panels') > Len(panels) =>
          LET new == panels'[Len(panels')]
          IN  /\ new.diffOld = (IF editor THEN GetText(doc) ELSE <<>>)
              /\ new.diffNew = new.code
      ]_vars

(* C14: a generate request that fails, at the provider or before reaching  *)
(* it, opens no review panel, makes nothing pending and writes nothing to  *)
(* the document.                                                           *)
C14_FailedGenerationOpensNothing ==
    [][ ev'.kind = "generateFailed" =>
          /\ panels' = panels
          /\ docWrites' = docWrites
          /\ doc' = doc
      ]_vars

(* A provider call of a generate request has just failed. *)
C14_Witness ==
    /\ ev.kind = "generateFailed"
    /\ ev.call.op = "generate"
    /\ \A p \in DOMAIN panels : panels[p].status # "pending"

(* The lines of a text, each as a diff line of one kind. *)
AllOfKind(kind, text) ==
    [i \in 1..Len(Split(text)) |-> DiffLine(kind, Split(text)[i])]

(* C15: the diff of a text with itself consists of unchanged lines only,   *)
(* exactly one per line of the text, in order.                             *)
C15_DiffOfEqualTextsIsUnchanged ==
    (diffRun.done /\ diffRun.old = diffRun.new) =>
        diffRun.out = AllOfKind("unchanged", diffRun.old)

(* A text of several lines, one of them blank, was diffed with itself. *)
C15_Witness ==
    /\ diffRun.done
    /\ diffRun.old = diffRun.new
    /\ Len(diffRun.out) >= 2
    /\ \E i \in DOMAIN diffRun.out : diffRun.out[i].text = <<>>
    /\ \E i \in DOMAIN diffRun.out : diffRun.out[i].text # <<>>

(* C16: the diff of the empty text with a text x consists of added lines   *)
(* only, exactly one per line of x (blank lines included), in order.       *)
C16_DiffFromEmptyIsAllAdded ==
    (diffRun.done /\ diffRun.old = <<>>) =>
        diffRun.out = AllOfKind("added", diffRun.new)

(* The texts of the diff lines of the given kinds, in order. *)
RECURSIVE TextsOf(_, _)
TextsOf(out, kinds) ==
    IF out = <<>> THEN <<>>
    ELSE (IF Head(out).kind \in kinds THEN << Head(out).text >> ELSE <<>>)
         \o TextsOf(Tail(out), kinds)

EscapedLines(text) == [i \in 1..Len(Split(text)) |-> escapeHtml(Split(text)[i])]

(* C17: a diff covers every input line exactly once and in order: its      *)
(* removed and unchanged lines are the lines of the original, its added    *)
(* and unchanged lines are the lines of the proposed text.                 *)
C17_DiffCoversBothTexts ==
    diffRun.done =>
        /\ TextsOf(diffRun.out, {"removed", "unchanged"}) = EscapedLines(diffRun.old)
        /\ TextsOf(diffRun.out, {"added", "unchanged"}) = EscapedLines(diffRun.new)

(* The positional diff as stated: at each index one unchanged line when    *)
(* both texts have the line and the two are equal, else a removed line for *)
(* the original's line if it exists and then an added line for the         *)
(* proposed text's line if it exists.                                      *)
RECURSIVE PositionalFrom(_, _, _)
PositionalFrom(a, b, i) ==
    IF i > Len(a) /\ i > Len(b) THEN <<>>
    ELSE (IF i <= Len(a) /\ i <= Len(b) /\ a[i] = b[i]
          THEN << DiffLine("unchanged", a[i]) >>
          ELSE (IF i <= Len(a) THEN << DiffLine("removed", a[i]) >> ELSE <<>>)
               \o (IF i <= Len(b) THEN << DiffLine("added", b[i]) >> ELSE <<>>))
         \o PositionalFrom(a, b, i + 1)

(* C18: the diff is positional, line i against line i, and an existing     *)
(* line is reported also when it is empty.                                 *)
C18_DiffIsPositional ==
    diffRun.done =>
        diffRun.out = PositionalFrom(Split(diffRun.old), Split(diffRun.new), 1)

(* C19: every failed request shows exactly one error notification, and     *)
(* the store accepts commands afterwards (its processing flag is clear).   *)
C19_OneNotificationPerFailure ==
    ev.kind \in {"sendFailed", "sendThrew", "plotFailed", "generateFailed"} =>
        /\ notes = <<"error">>
        /\ ev.kind \in {"sendFailed", "sendThrew"} => ~isProcessing

(* C20: a missing credential is fatal only for the request that met it:    *)
(* whenever a valid credential is configured, also after the store was     *)
(* constructed or a request failed without one, a send to the idle store   *)
(* obtains a client and calls the provider.                                *)
C20_SendUsesConfiguredCredential ==
    (apiKey # "" /\ ~isProcessing /\ messages.kind = "array" /\ Budget) =>
        ENABLED (\E c \in Contents : SendMessage(c) \/ ExtSend(c))

C22_InvalidChatMakesNoRequest ==
    \A i \in DOMAIN clientRun.requests :
        LET ms == clientRun.requests[i].msgs
        IN  /\ ms # <<>>
            /\ \A j \in DOMAIN ms : ms[j] \in {"system", "user", "assistant"}

(* The provider a client class talks to. *)
Family(class) ==
    IF class \in {"OpenAINew", "OpenAIOld", "OpenAIFetch"} THEN "OpenAI"
    ELSE IF class \in {"OllamaNew", "OllamaOld"} THEN "Ollama" ELSE "none"

(* C27 as stated: the factory returns a client of the named provider       *)
(* exactly when the name is OpenAI or Ollama and its credential is not     *)
(* empty, and in every other case fails with an error and no client.       *)
C27_SelectionAsStated ==
    clientRun.stage \notin {"idle", "start"} =>
        LET wanted == clientRun.name \in {"OpenAI", "Ollama"} /\
                      ~Falsy(Lookup(clientRun.name, clientRun.key))
        IN  IF wanted
            THEN Family(clientRun.class) = clientRun.name
            ELSE /\ clientRun.class = "none"
                 /\ clientRun.error \in {"keyMissing", "unsupported", "noProvider"}

(* C27, amended: the factory returns a client of the named provider        *)
(* whenever the name is OpenAI or Ollama and its credential holds a        *)
(* character that is not white space; a client it returns is of the named  *)
(* provider, for the name OpenAI or Ollama and a credential that is not    *)
(* empty; when it returns none it fails with an error naming the setting   *)
(* and nothing is requested.                                               *)
C27_SelectionByNameAndCredential ==
    clientRun.stage \notin {"idle", "start"} =>
        LET k == Lookup(clientRun.name, clientRun.key)
            got == clientRun.class # "none"
        IN  /\ (clientRun.name \in {"OpenAI", "Ollama"} /\ ~Falsy(TrimKey(k))) => got
            /\ got => /\ clientRun.name \in {"OpenAI", "Ollama"}
                      /\ Family(clientRun.class) = clientRun.name
                      /\ ~Falsy(k)
            /\ ~got => /\ clientRun.stage = "failed"
                       /\ clientRun.error \in {"keyMissing", "unsupported", "noProvider"}
                       /\ clientRun.requests = <<>>

(* The factory of llmClient.ts returned an OpenAI client for a valid key,  *)
(* and the client was used.                                                *)
C27_Witness ==
    /\ clientRun.factory = "llmClient"
    /\ clientRun.name = "OpenAI"
    /\ clientRun.key = "k"
    /\ clientRun.class = "OpenAINew"
    /\ clientRun.stage = "requested"

(* C23: on every send that reaches the provider, the list passed to chat   *)
(* is the system message followed by the whole history as it stands after  *)
(* the user message was appended.                                          *)
C23_ChatGetsSystemAndHistory ==
    [][ ev'.kind = "sendIssued" =>
          calls'[Len(calls')].arg = << SystemMessage >> \o messages'.items
      ]_vars

(* C24: every accepted send finishes in the end, with a reply or a         *)
(* failure, and clears the pending flag, so that a later send is accepted. *)
C24_PendingSendFinishes ==
    isProcessing ~> ~isProcessing

(* C25: when accept is handled with no active document nothing is written, *)
(* an error is shown to the user, and no write follows when a document     *)
(* becomes active later.                                                   *)
C25_AcceptWithoutDocumentIsReported ==
    [][ /\ (ev'.kind = "accept" /\ ~editor) =>
             /\ docWrites' = docWrites
             /\ doc' = doc
             /\ \E i \in DOMAIN notes' : notes'[i] = "error"
        /\ ev'.kind = "editor" => docWrites' = docWrites
      ]_vars

(* The payload the fence extraction is stated to return: the text between *)
(* the first opening fence, with or without a language tag, and the next  *)
(* fence, without the blank lines around it; the whole input when there   *)
(* is no such pair.                                                       *)
StatedPayload(s) ==
    LET opens == { i \in 1..Len(s) :
                       s[i] = "F" /\ \E j \in (i + 1)..Len(s) : s[j] = "F" }
    IN  IF opens = {} THEN s
        ELSE LET i == CHOOSE a \in opens : \A b \in opens : a <= b
                 k == IF s[i + 1] = "M" THEN i + 2 ELSE i + 1
                 closes == { a \in k..Len(s) : s[a] = "F" }
             IN  IF closes = {} THEN s
                 ELSE LET j == CHOOSE a \in closes : \A b \in closes : a <= b
                      IN  Trim(SubSeq(s, k, j - 1))

(* C26: the payload stored for a response is the text between its first  *)
(* fence pair, whatever the language tag, and the whole response when it *)
(* has no fence pair.                                                    *)
C26_FenceExtractionIsTotal ==
    fenceRun.done => fenceRun.payload = StatedPayload(fenceRun.text)

(* C28: whenever no provider call of an AIAssistant command is in flight *)
(* the processing flag is false, so no command is refused as busy then.  *)
C28_FlagClearWhenNothingInFlight ==
    assistant.inFlight = 0 => ~assistant.isProcessing

(* C29: an accept of showCodeReviewWebview's panel replaces the text that *)
(* was the original side of the panel's diff, whatever happened to the    *)
(* active editor and its selection since the panel was created.           *)
C29_AcceptWritesWhereDiffWasTaken ==
    [][ \A p \in DOMAIN panels :
          (impl = "extension" /\ editor /\ panels'[p].applies > panels[p].applies)
             => CurrentContent = panels[p].diffOld
      ]_vars

(* C30: the reply to a send that was pending when the conversation was *)
(* cleared changes neither the history nor the persisted history.      *)
C30_ReplyAfterClearIsDropped ==
    [][ (ev'.kind = "sendDone" /\ ev'.call.cleared) =>
            /\ messages' = messages
            /\ persisted' = persisted
      ]_vars
====
